---- MODULE Spec2Model ----
(***************************************************************************)
(* Model of the ingestion cell of weaviate_box.ipynb (Step 6):            *)
(*   clean_up_text, get_file_text_content, chunk_text and                  *)
(*   extract_text_and_generate_embeddings.                                 *)
(*                                                                         *)
(* A text is a sequence of characters.  A character is one of the tokens  *)
(* of Char; the tokens stand for the character classes the regular        *)
(* expressions of clean_up_text tell apart.                                *)
(***************************************************************************)
EXTENDS Integers, Sequences, FiniteSets

\* ------------------------------------------------------------------------
\* Characters
\*   "a" "0"  word characters that are also hexadecimal digits
\*   "n" "u"  word characters that are not hexadecimal digits
\*   "-"      ASCII hyphen            "EM"  em dash U+2014
\*   "SP" "NL" "TAB"  space, newline, tab (all matched by \s)
\*   "BS"     backslash
\*   "F075" "F0B7"  the private-use code points U+F075 and U+F0B7
\* ------------------------------------------------------------------------
Char == {"a", "0", "n", "u", "-", "EM", "SP", "NL", "TAB", "BS", "F075", "F0B7"}

\* \w : Unicode word characters (letters, digits, underscore)
IsWord(c) == c \in {"a", "0", "n", "u"}

\* \s : Unicode whitespace
IsSpace(c) == c \in {"SP", "NL", "TAB"}

\* [\dA-Fa-f]
IsHex(c) == c \in {"a", "0"}

\* ------------------------------------------------------------------------
\* Bounds of the checked input sets
\* ------------------------------------------------------------------------
MaxLenAny == 3
MaxLenWord == 5
MaxLenDash == 11
MaxLenEsc == 7
MaxTextLen == 5
MaxChunkSize == 3
MaxRetriesBound == 3
NumFiles == 3
\* The iterations of the while loop of chunk_text the model follows for a
\* call that does not leave the loop by itself.
MaxChunks == 12

\* All texts over alphabet A of length at most n.
Texts(A, n) == UNION {[1..k -> A] : k \in 0..n}

\* ------------------------------------------------------------------------
\* clean_up_text
\* ------------------------------------------------------------------------

\* Index of the last character of the maximal run of characters satisfying
\* the class test that starts at i (i - 1 when s[i] is not in the class).
RECURSIVE WordRunEnd(_, _)
WordRunEnd(s, i) ==
    IF i <= Len(s) /\ IsWord(s[i]) THEN WordRunEnd(s, i + 1) ELSE i - 1

RECURSIVE SpaceRunEnd(_, _)
SpaceRunEnd(s, i) ==
    IF i <= Len(s) /\ IsSpace(s[i]) THEN SpaceRunEnd(s, i + 1) ELSE i - 1

\* re.sub(r'(\w+)-\n(\w+)', r'\1\2', content), scanning from position i:
\* leftmost, greedy, non-overlapping matches.
RECURSIVE RejoinFrom(_, _)
RejoinFrom(s, i) ==
    IF i > Len(s) THEN <<>>
    ELSE IF ~IsWord(s[i]) THEN <<s[i]>> \o RejoinFrom(s, i + 1)
    ELSE LET j == WordRunEnd(s, i)
         IN  IF /\ j + 3 <= Len(s)
                /\ s[j + 1] = "-"
                /\ s[j + 2] = "NL"
                /\ IsWord(s[j + 3])
             THEN LET k == WordRunEnd(s, j + 3)
                  IN  SubSeq(s, i, j) \o SubSeq(s, j + 3, k) \o RejoinFrom(s, k + 1)
             ELSE SubSeq(s, i, j) \o RejoinFrom(s, j + 1)

RejoinHyphenBreak(content) == RejoinFrom(content, 1)

\* A pattern of fixed length is a sequence of character sets.
Lit(str) == [k \in 1..Len(str) |-> {str[k]}]

Dashes(n) == [k \in 1..n |-> "EM"]

\* The list unwanted_patterns, in the order it is iterated.
\*   "\\n" is the two-character regular expression \n : it matches a newline.
unwanted_patterns ==
    << Lit(<<"NL">>),
       Lit(<<"SP", "SP", "EM">>),
       Lit(Dashes(10)),
       Lit(Dashes(9)),
       Lit(Dashes(5)),
       <<{"BS"}, {"u"}, {c \in Char : IsHex(c)}, {c \in Char : IsHex(c)},
         {c \in Char : IsHex(c)}, {c \in Char : IsHex(c)}>>,
       Lit(<<"F075">>),
       Lit(<<"F0B7">>) >>

MatchesAt(s, i, pat) ==
    /\ i + Len(pat) - 1 <= Len(s)
    /\ \A k \in 1..Len(pat) : s[i + k - 1] \in pat[k]

\* re.sub(pattern, "", content), scanning from position i.
RECURSIVE RemoveFrom(_, _, _)
RemoveFrom(s, i, pat) ==
    IF i > Len(s) THEN <<>>
    ELSE IF MatchesAt(s, i, pat) THEN RemoveFrom(s, i + Len(pat), pat)
    ELSE <<s[i]>> \o RemoveFrom(s, i + 1, pat)

\* for pattern in unwanted_patterns: content = re.sub(pattern, "", content)
RECURSIVE StripPatterns(_, _)
StripPatterns(content, p) ==
    IF p > Len(unwanted_patterns) THEN content
    ELSE StripPatterns(RemoveFrom(content, 1, unwanted_patterns[p]), p + 1)

\* re.sub(r'(\w)\s*-\s*(\w)', r'\1-\2', content), scanning from position i.
RECURSIVE TightenFrom(_, _)
TightenFrom(s, i) ==
    IF i > Len(s) THEN <<>>
    ELSE IF ~IsWord(s[i]) THEN <<s[i]>> \o TightenFrom(s, i + 1)
    ELSE LET p == SpaceRunEnd(s, i + 1) + 1
             q == SpaceRunEnd(s, p + 1) + 1
         IN  IF /\ p <= Len(s)
                /\ s[p] = "-"
                /\ q <= Len(s)
                /\ IsWord(s[q])
             THEN <<s[i], "-", s[q]>> \o TightenFrom(s, q + 1)
             ELSE <<s[i]>> \o TightenFrom(s, i + 1)

TightenHyphen(content) == TightenFrom(content, 1)

\* re.sub(r'\s+', ' ', content), scanning from position i.
RECURSIVE CollapseFrom(_, _)
CollapseFrom(s, i) ==
    IF i > Len(s) THEN <<>>
    ELSE IF IsSpace(s[i]) THEN <<"SP">> \o CollapseFrom(s, SpaceRunEnd(s, i) + 1)
    ELSE <<s[i]>> \o CollapseFrom(s, i + 1)

CollapseWhitespace(content) == CollapseFrom(content, 1)

clean_up_text(content) ==
    CollapseWhitespace(TightenHyphen(StripPatterns(RejoinHyphenBreak(content), 1)))


\* ------------------------------------------------------------------------
\* State
\* ------------------------------------------------------------------------
VARIABLES
    \* clean_up_text called on its own
    raw,            \* the argument content
    cleaned,        \* clean_up_text(raw)
    recleaned,      \* clean_up_text(cleaned)
    npc,            \* "idle", "call", "cleaned", "recleaned"
    \* chunk_text
    text,           \* argument text
    chunk_size,     \* argument chunk_size
    overlap,        \* argument overlap
    start,          \* local start
    chunks,         \* local chunks
    cpc,            \* "idle", "loop", "returned"
    \* get_file_text_content
    file,           \* argument file
    max_retries,    \* argument max_retries
    attempt,        \* loop variable attempt
    calls,          \* blocking calls made so far by this call, in order
    responses,      \* what the source answered to each metadata lookup
    result,         \* returned text
    error,          \* the exception raised
    fpc,            \* "idle", "loop", "download", "returned",
                    \* "returned_none", "raised"
    \* extract_text_and_generate_embeddings consumed by list(...)
    files,          \* argument files
    idx,            \* position of the for loop in files
    ci,             \* index i of enumerate(chunks)
    data,           \* the records yielded so far
    log,            \* the lines printed by the except clause
    fetched,        \* how get_file_text_content ended for each file visited
    ppc             \* "idle", "next", "fetch", "chunk", "yield", "done"

normVars == <<raw, cleaned, recleaned, npc>>
chunkVars == <<text, chunk_size, overlap, start, chunks, cpc>>
fetchVars == <<file, max_retries, attempt, calls, responses, result, error, fpc>>
pipeVars == <<files, idx, ci, data, log, fetched, ppc>>
vars == <<normVars, chunkVars, fetchVars, pipeVars>>

\* A file of the Box folder: the fields the code reads, and the extracted
\* text the content endpoint serves for it.
Doc(i, content) ==
    [id |-> i, name |-> 100 + i, created_at |-> 200 + i, content |-> content]

NoFile == Doc(0, <<>>)

NormIdle == raw = <<>> /\ cleaned = <<>> /\ recleaned = <<>> /\ npc = "idle"

ChunkIdle ==
    /\ text = <<>> /\ chunk_size = 0 /\ overlap = 0
    /\ start = 0 /\ chunks = <<>> /\ cpc = "idle"

FetchIdle ==
    /\ file = NoFile /\ max_retries = 0 /\ attempt = 0 /\ calls = <<>>
    /\ responses = <<>> /\ result = <<>> /\ error = "none" /\ fpc = "idle"

PipeIdle ==
    /\ files = <<>> /\ idx = 0 /\ ci = 0 /\ data = <<>> /\ log = <<>>
    /\ fetched = <<>> /\ ppc = "idle"

\* ------------------------------------------------------------------------
\* clean_up_text as a call
\* ------------------------------------------------------------------------
NormInputs ==
    Texts(Char, MaxLenAny)
        \cup Texts({"a", "-", "SP", "NL", "TAB"}, MaxLenWord)
        \cup Texts({"EM", "F075"}, MaxLenDash)
        \cup Texts({"BS", "u", "0"}, MaxLenEsc)

InitNorm ==
    /\ raw \in NormInputs
    /\ cleaned = <<>> /\ recleaned = <<>> /\ npc = "call"
    /\ ChunkIdle /\ FetchIdle /\ PipeIdle

NormCall ==
    /\ npc = "call"
    /\ cleaned' = clean_up_text(raw)
    /\ npc' = "cleaned"
    /\ UNCHANGED <<raw, recleaned, chunkVars, fetchVars, pipeVars>>

NormAgain ==
    /\ npc = "cleaned"
    /\ recleaned' = clean_up_text(cleaned)
    /\ npc' = "recleaned"
    /\ UNCHANGED <<raw, cleaned, chunkVars, fetchVars, pipeVars>>

NextNorm == NormCall \/ NormAgain

SpecNorm == InitNorm /\ [][NextNorm]_vars

\* ------------------------------------------------------------------------
\* chunk_text
\* ------------------------------------------------------------------------
Min(a, b) == IF a < b THEN a ELSE b
Max(a, b) == IF a > b THEN a ELSE b

\* Python's s[lo:hi] for integers lo and hi: a negative index counts from
\* the end, and both are clamped to 0..len(s).
PyIndex(s, i) == IF i < 0 THEN Max(i + Len(s), 0) ELSE Min(i, Len(s))

\* s[lo:hi - 1]: the slice loses its last character.
PySlice_DropLast(s, lo, hi) ==
    LET l == PyIndex(s, lo)
        h == PyIndex(s, hi)
    IN  IF l < h - 1 THEN SubSeq(s, l + 1, h - 1) ELSE <<>>

PySlice(s, lo, hi) ==
    LET l == PyIndex(s, lo)
        h == PyIndex(s, hi)
    IN  IF l < h THEN SubSeq(s, l + 1, h) ELSE <<>>


ChunkConfigs ==
    {c \in [chunk_size : 0..MaxChunkSize, overlap : (-1)..MaxChunkSize] : TRUE}

InitChunk ==
    /\ text \in Texts({"a", "0", "n"}, MaxTextLen)
    /\ \E c \in ChunkConfigs : chunk_size = c.chunk_size /\ overlap = c.overlap
    /\ start = 0 /\ chunks = <<>> /\ cpc = "loop"
    /\ NormIdle /\ FetchIdle /\ PipeIdle

\* start = end: the next window starts where this one ends.
ChunkLoop_NoOverlap ==
    /\ cpc = "loop"
    /\ start < Len(text)
    /\ Len(chunks) < MaxChunks
    /\ LET end == start + chunk_size
       IN  /\ chunks' = Append(chunks, PySlice(text, start, end))
           /\ start' = end
    /\ UNCHANGED <<text, chunk_size, overlap, cpc, normVars, fetchVars, pipeVars>>

\* One iteration of the while loop.
ChunkLoop ==
    /\ cpc = "loop"
    /\ start < Len(text)
    /\ Len(chunks) < MaxChunks
    /\ LET end == start + chunk_size
       IN  /\ chunks' = Append(chunks, PySlice(text, start, end))
           /\ start' = end - overlap
    /\ UNCHANGED <<text, chunk_size, overlap, cpc, normVars, fetchVars, pipeVars>>

\* The loop condition fails: return chunks.
ChunkReturn ==
    /\ cpc = "loop"
    /\ ~(start < Len(text))
    /\ cpc' = "returned"
    /\ UNCHANGED <<text, chunk_size, overlap, start, chunks, normVars, fetchVars, pipeVars>>

NextChunk == ChunkLoop \/ ChunkReturn

SpecChunk == InitChunk /\ [][NextChunk]_vars


\* ------------------------------------------------------------------------
\* get_file_text_content
\* ------------------------------------------------------------------------

\* Default of the parameter max_retries.
DefaultMaxRetries == 5

\* One entry of file.representations.entries.  The code reads the field
\* representation (and content.url_template); the source also reports a
\* generation state for the entry, which the code does not read.
Rep(kind, state) == [representation |-> kind, state |-> state]

\* What files.get_file_by_id(file.id, fields=["representations"]) can do:
\* raise, return a file without representations, or return a file with a
\* list of entries.
RespRaise == [raised |-> TRUE, representations |-> FALSE, entries |-> <<>>]
RespNone == [raised |-> FALSE, representations |-> FALSE, entries |-> <<>>]
RespEntries(e) == [raised |-> FALSE, representations |-> TRUE, entries |-> e]

Responses ==
    { RespRaise, RespNone,
      RespEntries(<<>>),
      RespEntries(<<Rep("extracted_text", "success")>>),
      RespEntries(<<Rep("extracted_text", "pending")>>),
      RespEntries(<<Rep("other", "success")>>),
      RespEntries(<<Rep("other", "success"), Rep("extracted_text", "success")>>) }

\* Outcomes of requests.get(download_url) followed by raise_for_status().
DownloadOutcomes == {"ok", "http_error"}

\* Texts the content endpoint serves in the checked runs.
TenChars == <<"a", "0", "n", "u", "a", "0", "n", "u", "a", "0">>
NoisyText ==
    <<"a", "-", "NL", "n", "SP", "SP", "u", "NL", "0", "SP", "-", "SP", "a">>
OnlyNewline == <<"NL">>

DocTexts == {TenChars, NoisyText, OnlyNewline}

InitFetch ==
    /\ \E c \in DocTexts : file = Doc(1, c)
    /\ max_retries \in 0..MaxRetriesBound
    /\ attempt = 0 /\ calls = <<>> /\ responses = <<>>
    /\ result = <<>> /\ error = "none" /\ fpc = "loop"
    /\ NormIdle /\ ChunkIdle /\ PipeIdle

\* One iteration of "for attempt in range(max_retries)": the metadata lookup
\* and what the body decides from its answer r.
FetchLookup(r) ==
    /\ fpc = "loop"
    /\ attempt < max_retries
    /\ calls' = Append(calls, "get_file_by_id")
    /\ responses' = Append(responses, r)
    /\ IF r.raised
       THEN fpc' = "raised" /\ error' = "BoxAPIError" /\ UNCHANGED attempt
       ELSE IF r.representations /\ r.entries # <<>>
       THEN \* the for loop over entries returns or raises on its first entry
            IF r.entries[1].representation = "extracted_text"
            THEN fpc' = "download" /\ UNCHANGED <<error, attempt>>
            ELSE fpc' = "raised" /\ error' = "ValueError: not ready"
                                 /\ UNCHANGED attempt
       ELSE IF attempt = max_retries - 1
            THEN fpc' = "raised" /\ error' = "ValueError: not ready after max_retries attempts"
                                 /\ UNCHANGED attempt
            ELSE attempt' = attempt + 1 /\ UNCHANGED <<fpc, error>>
    /\ UNCHANGED <<file, max_retries, result, normVars, chunkVars, pipeVars>>

\* requests.get, raise_for_status, return clean_up_text(response.text)
FetchDownload(outcome) ==
    /\ fpc = "download"
    /\ calls' = Append(calls, "requests.get")
    /\ IF outcome = "ok"
       THEN fpc' = "returned" /\ result' = clean_up_text(file.content)
                              /\ UNCHANGED error
       ELSE fpc' = "raised" /\ error' = "HTTPError" /\ UNCHANGED result
    /\ UNCHANGED <<file, max_retries, attempt, responses, normVars, chunkVars, pipeVars>>

\* range(max_retries) is empty: the function falls off its end, returning None.
FetchFallThrough ==
    /\ fpc = "loop"
    /\ ~(attempt < max_retries)
    /\ fpc' = "returned_none"
    /\ UNCHANGED <<file, max_retries, attempt, calls, responses, result, error,
                   normVars, chunkVars, pipeVars>>

NextFetch ==
    \/ \E r \in Responses : FetchLookup(r)
    \/ \E o \in DownloadOutcomes : FetchDownload(o)
    \/ FetchFallThrough

SpecFetch == InitFetch /\ [][NextFetch]_vars

\* ------------------------------------------------------------------------
\* extract_text_and_generate_embeddings, consumed to its end by list(...)
\* ------------------------------------------------------------------------

\* The arguments of the call chunk_text(text, chunk_size=4000, overlap=200),
\* scaled down to 4 and 1 so that the checked texts span several chunks.
RunChunkSize == 4
RunOverlap == 1

Init ==
    /\ \E k \in 0..NumFiles :
         \E c \in [1..k -> DocTexts] : files = [i \in 1..k |-> Doc(i, c[i])]
    /\ idx = 1 /\ ci = 0 /\ data = <<>> /\ log = <<>> /\ fetched = <<>>
    /\ ppc = "next"
    /\ NormIdle /\ ChunkIdle /\ FetchIdle

\* for file in files: ... text = get_file_text_content(file)
PipeNextFile ==
    /\ ppc = "next"
    /\ idx <= Len(files)
    /\ file' = files[idx]
    /\ max_retries' = DefaultMaxRetries
    /\ attempt' = 0 /\ calls' = <<>> /\ responses' = <<>>
    /\ result' = <<>> /\ error' = "none" /\ fpc' = "loop"
    /\ ppc' = "fetch"
    /\ UNCHANGED <<files, idx, ci, data, log, fetched, normVars, chunkVars>>

\* get_file_text_content returned a text: chunks = chunk_text(text, ...)
PipeChunk ==
    /\ ppc = "fetch"
    /\ fpc = "returned"
    /\ fetched' = Append(fetched, "returned")
    /\ text' = result
    /\ chunk_size' = RunChunkSize /\ overlap' = RunOverlap
    /\ start' = 0 /\ chunks' = <<>> /\ cpc' = "loop"
    /\ file' = NoFile /\ max_retries' = 0 /\ attempt' = 0 /\ calls' = <<>>
    /\ responses' = <<>> /\ result' = <<>> /\ error' = "none" /\ fpc' = "idle"
    /\ ppc' = "chunk"
    /\ UNCHANGED <<files, idx, ci, data, log, normVars>>

\* chunk_text returned: for i, chunk in enumerate(chunks)
PipeEnumerate ==
    /\ ppc = "chunk"
    /\ cpc = "returned"
    /\ ci' = 0
    /\ cpc' = "idle"
    /\ ppc' = "yield"
    /\ UNCHANGED <<files, idx, data, log, fetched, text, chunk_size, overlap,
                   start, chunks, fetchVars, normVars>>

\* enumerate(chunks, 1): chunk_index counts from 1.
PipeYield_OneBased ==
    /\ ppc = "yield"
    /\ ci < Len(chunks)
    /\ data' = Append(data, [file_id |-> files[idx].id,
                             file_name |-> files[idx].name,
                             chunk_index |-> ci + 1,
                             content |-> chunks[ci + 1],
                             created_date |-> files[idx].created_at])
    /\ ci' = ci + 1
    /\ UNCHANGED <<files, idx, log, fetched, ppc, chunkVars, fetchVars, normVars>>

\* yield {...}; the consumer list(...) appends the record to data
PipeYield ==
    /\ ppc = "yield"
    /\ ci < Len(chunks)
    /\ data' = Append(data, [file_id |-> files[idx].id,
                             file_name |-> files[idx].name,
                             chunk_index |-> ci,
                             content |-> chunks[ci + 1],
                             created_date |-> files[idx].created_at])
    /\ ci' = ci + 1
    /\ UNCHANGED <<files, idx, log, fetched, ppc, chunkVars, fetchVars, normVars>>

\* enumerate(chunks) is exhausted: the try block ends, next file
PipeEndFile ==
    /\ ppc = "yield"
    /\ ~(ci < Len(chunks))
    /\ idx' = idx + 1
    /\ ppc' = "next"
    /\ text' = <<>> /\ chunk_size' = 0 /\ overlap' = 0 /\ start' = 0
    /\ chunks' = <<>> /\ ci' = 0
    /\ UNCHANGED <<files, data, log, fetched, cpc, fetchVars, normVars>>

\* No except clause: the exception ends the generator and the run.
PipeExcept_Abort ==
    /\ ppc = "fetch"
    /\ fpc \in {"raised", "returned_none"}
    /\ fetched' = Append(fetched, fpc)
    /\ file' = NoFile /\ max_retries' = 0 /\ attempt' = 0 /\ calls' = <<>>
    /\ responses' = <<>> /\ result' = <<>> /\ error' = "none" /\ fpc' = "idle"
    /\ ppc' = "done"
    /\ UNCHANGED <<files, idx, ci, data, log, chunkVars, normVars>>

\* except Exception as e: print(...).  An exception reaches the clause from
\* get_file_text_content, or from len(None) in chunk_text when
\* get_file_text_content returned None.
PipeExcept ==
    /\ ppc = "fetch"
    /\ fpc \in {"raised", "returned_none"}
    /\ fetched' = Append(fetched, fpc)
    /\ log' = Append(log, [file_name |-> files[idx].name,
                           error |-> IF fpc = "raised" THEN error ELSE "TypeError"])
    /\ file' = NoFile /\ max_retries' = 0 /\ attempt' = 0 /\ calls' = <<>>
    /\ responses' = <<>> /\ result' = <<>> /\ error' = "none" /\ fpc' = "idle"
    /\ idx' = idx + 1
    /\ ppc' = "next"
    /\ UNCHANGED <<files, ci, data, chunkVars, normVars>>

\* files is exhausted: the generator ends and list(...) returns data
PipeDone ==
    /\ ppc = "next"
    /\ ~(idx <= Len(files))
    /\ ppc' = "done"
    /\ UNCHANGED <<files, idx, ci, data, log, fetched, chunkVars, fetchVars, normVars>>

\* The answers of the source in the checked runs.  A file without
\* representations takes the branch of an empty list of entries; SpecFetch
\* covers it.
RunResponses == Responses \ {RespNone}

Next ==
    \/ PipeNextFile
    \/ \E r \in RunResponses : FetchLookup(r)
    \/ \E o \in DownloadOutcomes : FetchDownload(o)
    \/ PipeChunk
    \/ ChunkLoop
    \/ ChunkReturn
    \/ PipeEnumerate
    \/ PipeYield
    \/ PipeEndFile
    \/ PipeExcept
    \/ PipeDone

Spec == Init /\ [][Next]_vars


\* ========================================================================
\* Properties
\* ========================================================================

\* ---- clean_up_text -----------------------------------------------------

\* The maximal runs of word characters of s, from position i on.
RECURSIVE WordsFrom(_, _)
WordsFrom(s, i) ==
    IF i > Len(s) THEN <<>>
    ELSE IF IsWord(s[i])
         THEN <<SubSeq(s, i, WordRunEnd(s, i))>> \o WordsFrom(s, WordRunEnd(s, i) + 1)
         ELSE WordsFrom(s, i + 1)

OnlyWordsAndSpaces(s) == \A i \in 1..Len(s) : IsWord(s[i]) \/ IsSpace(s[i])

\* C9: on a text made of words and whitespace only, clean_up_text turns
\* every run of whitespace (spaces, newlines, tabs) into one space: the
\* words of the output are the words of the input (no two words are joined),
\* the only whitespace character of the output is the space, and no two
\* spaces are adjacent.
C9_WhitespaceRunsBecomeOneSpace ==
    (npc = "cleaned" /\ OnlyWordsAndSpaces(raw)) =>
        /\ WordsFrom(cleaned, 1) = WordsFrom(raw, 1)
        /\ \A i \in 1..Len(cleaned) :
              IsSpace(cleaned[i]) =>
                  /\ cleaned[i] = "SP"
                  /\ i < Len(cleaned) => ~IsSpace(cleaned[i + 1])

\* C10: clean_up_text is idempotent: cleaning a cleaned text changes nothing.
C10_Idempotent == npc = "recleaned" => recleaned = cleaned

\* ---- chunk_text --------------------------------------------------------

ValidConfig == chunk_size > overlap /\ overlap >= 0

\* The last / first k characters of c (all of c when it is shorter).
LastChars(c, k) == SubSeq(c, Len(c) - Min(k, Len(c)) + 1, Len(c))
FirstChars(c, k) == SubSeq(c, 1, Min(k, Len(c)))

RECURSIVE SumLen(_)
SumLen(cs) == IF cs = <<>> THEN 0 ELSE Len(Head(cs)) + SumLen(Tail(cs))

\* C4 as stated: under a valid configuration, for every adjacent pair of
\* returned chunks the last overlap characters of the first are the first
\* overlap characters of the second, truncated chunks included.
C4_OverlapEveryPair ==
    (cpc = "returned" /\ ValidConfig) =>
        \A i \in 1..(Len(chunks) - 1) :
            LastChars(chunks[i], overlap) = FirstChars(chunks[i + 1], overlap)

\* C4 amended: under a valid configuration, for every adjacent pair of
\* returned chunks whose first chunk has the full chunk_size characters, the
\* last overlap characters of the first are the first overlap characters of
\* the second; a chunk truncated at the end of the text is followed by a
\* proper suffix of itself.
C4_OverlapAfterFullChunk ==
    (cpc = "returned" /\ ValidConfig) =>
        \A i \in 1..(Len(chunks) - 1) :
            IF Len(chunks[i]) = chunk_size
            THEN /\ Len(chunks[i + 1]) >= overlap
                 /\ LastChars(chunks[i], overlap) = FirstChars(chunks[i + 1], overlap)
            ELSE /\ Len(chunks[i + 1]) < Len(chunks[i])
                 /\ chunks[i + 1] = LastChars(chunks[i], Len(chunks[i + 1]))

\* A returned call with a valid configuration, an overlap of two characters
\* or more, a full chunk followed by its overlapping successor, and a
\* truncated chunk followed by a chunk shorter than the overlap.
C4_Witness ==
    /\ cpc = "returned" /\ ValidConfig /\ overlap >= 2
    /\ Len(chunks) >= 3
    /\ Len(chunks[1]) = chunk_size
    /\ Len(chunks[Len(chunks)]) < overlap

\* C5: a call of chunk_text with overlap >= chunk_size does not run forever:
\* no iteration of the loop is executed that fails to advance start.
C5_StartAdvances ==
    [][(cpc = "loop" /\ overlap >= chunk_size /\ chunks' # chunks)
           => start' > start]_vars

\* C6 as stated: for every text, chunk_size and overlap, the returned chunks
\* drop no tail: the lengths of the chunks add up to at least the length of
\* the text, and the last character of the final chunk of a non-empty text
\* is the last character of the text.
C6_NoDroppedTailAnyConfig ==
    cpc = "returned" =>
        /\ SumLen(chunks) >= Len(text)
        /\ text # <<>> =>
              /\ chunks # <<>>
              /\ chunks[Len(chunks)] # <<>>
              /\ chunks[Len(chunks)][Len(chunks[Len(chunks)])] = text[Len(text)]

\* C6 amended: the same, for every text and every configuration with
\* chunk_size > overlap >= 0.
C6_NoDroppedTail ==
    (cpc = "returned" /\ ValidConfig) =>
        /\ SumLen(chunks) >= Len(text)
        /\ text # <<>> =>
              /\ chunks # <<>>
              /\ chunks[Len(chunks)] # <<>>
              /\ chunks[Len(chunks)][Len(chunks[Len(chunks)])] = text[Len(text)]

\* A returned call with a valid configuration whose final chunk is truncated
\* at the end of a text of several chunks.
C6_Witness ==
    /\ cpc = "returned" /\ ValidConfig
    /\ Len(chunks) >= 2
    /\ Len(chunks[Len(chunks)]) < chunk_size
    /\ Len(text) = MaxTextLen

\* ---- get_file_text_content --------------------------------------------

\* The source reports a ready extracted-text representation.
IsReady(r) ==
    /\ ~r.raised
    /\ r.entries # <<>>
    /\ r.entries[1] = Rep("extracted_text", "success")

\* The source answers, and reports no ready extracted-text representation.
IsPending(r) == ~r.raised /\ ~IsReady(r)

Count(seq, x) == Cardinality({k \in 1..Len(seq) : seq[k] = x})

Ended == fpc \in {"returned", "returned_none", "raised"}

\* C2: with max_retries >= 1, a call never makes more than max_retries
\* lookups; a call whose source answered "pending" to the first n-1 lookups
\* and "ready" to the n-th (and whose download succeeds) returns the text
\* after these n lookups and one download; a call whose source only ever
\* answered "pending" fails after exactly max_retries lookups and no download.
C2_RetryUntilReady ==
    (Ended /\ max_retries >= 1) =>
        /\ Len(responses) <= max_retries
        /\ ( /\ responses # <<>>
             /\ \A k \in 1..(Len(responses) - 1) : IsPending(responses[k])
             /\ IsReady(responses[Len(responses)])
             /\ error # "HTTPError" )
           => ( /\ fpc = "returned"
                /\ Count(calls, "get_file_by_id") = Len(responses)
                /\ Count(calls, "requests.get") = 1 )
        /\ (\A k \in 1..Len(responses) : IsPending(responses[k]))
           => ( /\ fpc = "raised"
                /\ error \in {"ValueError: not ready",
                              "ValueError: not ready after max_retries attempts"}
                /\ Count(calls, "get_file_by_id") = max_retries
                /\ Count(calls, "requests.get") = 0 )

\* C3: an attempt whose lookup found an empty list, or a representation that
\* is not the ready extracted-text one, makes no download and, while attempts
\* remain, is followed by the next attempt instead of failing the call; a
\* download happens only on an attempt that observed a ready representation.
C3_NotReadyIsRetried ==
    /\ (fpc = "download" \/ (Count(calls, "requests.get") > 0))
           => IsReady(responses[Len(responses)])
    /\ (fpc = "raised" /\ responses # <<>> /\ IsPending(responses[Len(responses)]))
           => Len(responses) = max_retries

\* C8: between any two consecutive metadata lookups of one call the call
\* makes a blocking wait (time.sleep).
C8_WaitBetweenLookups ==
    \A k \in 1..(Len(calls) - 1) :
        ~(calls[k] = "get_file_by_id" /\ calls[k + 1] = "get_file_by_id")

\* ---- extract_text_and_generate_embeddings ------------------------------

\* Window i (from 0) of text T as the chunker is specified: it starts at
\* i * (chunk_size - overlap) and is chunk_size long or ends with T.
Window(T, i) ==
    SubSeq(T, i * (RunChunkSize - RunOverlap) + 1,
              Min(Len(T), i * (RunChunkSize - RunOverlap) + RunChunkSize))

NumWindows(T) ==
    Cardinality({i \in 0..Len(T) : i * (RunChunkSize - RunOverlap) < Len(T)})

\* clean_up_text of each served text.
Cleaned == [c \in DocTexts |-> clean_up_text(c)]

RecordsOf(i) == {p \in 1..Len(data) : data[p].file_id = files[i].id}
LogsOf(i) == {p \in 1..Len(log) : log[p].file_name = files[i].name}

C7_ChunkIndexContiguous ==
    LET T == [i \in 1..Len(files) |-> Cleaned[files[i].content]]
    IN  /\ \A p \in 1..Len(data) :
              /\ data[p].chunk_index
                    = Cardinality({q \in 1..(p - 1) : data[q].file_id = data[p].file_id})
              /\ data[p].chunk_index < NumWindows(T[data[p].file_id])
              /\ data[p].content = Window(T[data[p].file_id], data[p].chunk_index)
              /\ data[p].file_name = files[data[p].file_id].name
              /\ p > 1 => data[p - 1].file_id <= data[p].file_id
        /\ \A i \in 1..Len(fetched) :
              (fetched[i] = "returned" /\ (idx > i \/ ppc = "done"))
                  => Cardinality(RecordsOf(i)) = NumWindows(T[i])

\* A finished run that emitted several records for each of two files.
C7_Witness ==
    /\ ppc = "done"
    /\ \E p, q \in 1..Len(data) :
          /\ p < q
          /\ data[p].file_id # data[q].file_id
          /\ data[p].chunk_index >= 2
          /\ data[q].chunk_index >= 2

====
